---- MODULE Spec2Model ----
(***************************************************************************)
(* A model of parse_type.py: the Cardinality pattern helpers and the six   *)
(* TypeBuilder type-converter builders, with the converter functions they  *)
(* return.                                                                 *)
(*                                                                         *)
(* A Python str is a sequence of one-character strings.  A Python value is *)
(* a record tagged by its field t.  A function object is a record in the   *)
(* heap convs holding its attributes (attrs) and the variables its body    *)
(* closes over (closure).  A call ends in an outcome: a returned value or  *)
(* a raised exception, together with the arguments the body passed to the  *)
(* callable it closes over, in call order.                                 *)
(***************************************************************************)
EXTENDS Integers, Sequences, FiniteSets, TLC

VARIABLES
    convs,   \* heap of function objects (type-converters), by identity 1..Len
    dicts,   \* heap of the caller's dict objects (enum_mappings)
    lists,   \* heap of the caller's list objects (choices, items to join)
    text,    \* the matched text the caller holds (a str value or None)
    last     \* the most recent builder or converter call and its outcome

vars == <<convs, dicts, lists, text, last>>

(***************************************************************************)
(* Python str operations                                                   *)
(***************************************************************************)
Whitespace == {" ", "\t", "\n", "\r"}

RECURSIVE lstrip(_)
lstrip(s) ==
    IF s # <<>> /\ Head(s) \in Whitespace THEN lstrip(Tail(s)) ELSE s

RECURSIVE rstrip(_)
rstrip(s) ==
    IF s # <<>> /\ s[Len(s)] \in Whitespace
    THEN rstrip(SubSeq(s, 1, Len(s) - 1))
    ELSE s

\* str.strip() with no argument
strip(s) == rstrip(lstrip(s))

\* s.startswith(p)
startswith(s, p) == Len(p) <= Len(s) /\ SubSeq(s, 1, Len(p)) = p

\* str.split(sep) for a non-empty sep: leftmost, non-overlapping occurrences;
\* cur is the part collected since the previous occurrence
RECURSIVE splitfrom(_, _, _)
splitfrom(s, sep, cur) ==
    IF s = <<>> THEN <<cur>>
    ELSE IF startswith(s, sep)
         THEN <<cur>> \o splitfrom(SubSeq(s, Len(sep) + 1, Len(s)), sep, <<>>)
         ELSE splitfrom(Tail(s), sep, Append(cur, Head(s)))

split(s, sep) == splitfrom(s, sep, <<>>)

\* sep.join(parts)
RECURSIVE join(_, _)
join(sep, parts) ==
    IF parts = <<>> THEN <<>>
    ELSE IF Len(parts) = 1 THEN parts[1]
    ELSE parts[1] \o sep \o join(sep, Tail(parts))

lowerchar(c) ==
    CASE c = "A" -> "a" [] c = "B" -> "b" [] OTHER -> c

upperchar(c) ==
    CASE c = "a" -> "A" [] c = "b" -> "B" [] OTHER -> c

\* str.lower(), str.upper()
lower(s) == [i \in 1..Len(s) |-> lowerchar(s[i])]
upper(s) == [i \in 1..Len(s) |-> upperchar(s[i])]

\* sub in s, for strings
contains(s, sub) ==
    \E i \in 0..(Len(s) - Len(sub)) : SubSeq(s, i + 1, i + Len(sub)) = sub

Digits == {"0", "1", "2", "3", "4", "5", "6", "7", "8", "9"}

digitval(c) ==
    CASE c = "0" -> 0 [] c = "1" -> 1 [] c = "2" -> 2 [] c = "3" -> 3
      [] c = "4" -> 4 [] c = "5" -> 5 [] c = "6" -> 6 [] c = "7" -> 7
      [] c = "8" -> 8 [] c = "9" -> 9

RECURSIVE decimal(_)
decimal(s) ==
    IF s = <<>> THEN 0
    ELSE 10 * decimal(SubSeq(s, 1, Len(s) - 1)) + digitval(s[Len(s)])

(***************************************************************************)
(* Python values and call outcomes                                         *)
(***************************************************************************)
PyNone == [t |-> "None"]
PyStr(s) == [t |-> "str", s |-> s]
PyInt(n) == [t |-> "int", n |-> n]
PyList(xs) == [t |-> "list", xs |-> xs]
PyTuple(xs) == [t |-> "tuple", xs |-> xs]
Function(i) == [t |-> "function", id |-> i]       \* a function object of convs
Dict(i) == [t |-> "dict", id |-> i]               \* a dict object of dicts
Builtin(name) == [t |-> "builtin", name |-> name] \* str, int, str.upper
\* an instance of a class defining __call__ and __len__, holding no items:
\* callable(x) is True and bool(x) is False
EmptyCallable == [t |-> "object", name |-> "EmptyCallable"]

Return(v, calls) == [tag |-> "return", value |-> v, calls |-> calls]
Raise(exc, calls) == [tag |-> "raise", exc |-> exc, calls |-> calls]

\* bool(v), as `if v:` and `if not v:` take it
truth(v) ==
    CASE v.t = "None" -> FALSE
      [] v.t = "str" -> v.s # <<>>
      [] v.t = "int" -> v.n # 0
      [] v.t \in {"list", "tuple"} -> v.xs # <<>>
      [] v = EmptyCallable -> FALSE
      [] OTHER -> TRUE

\* callable(v)
callable(v) == v.t \in {"function", "builtin", "object"}


\* a Python dict is the sequence of its <<key, value>> items in insertion order
dictkeys(d) == [i \in 1..Len(d) |-> d[i][1]]
haskey(d, k) == \E i \in 1..Len(d) : d[i][1] = k
getitem(d, k) == d[CHOOSE i \in 1..Len(d) : d[i][1] = k][2]

\* d[k] = v: replaces the value of an existing key in place, or appends
setitem(d, k, v) ==
    IF haskey(d, k)
    THEN [i \in 1..Len(d) |-> IF d[i][1] = k THEN <<k, v>> ELSE d[i]]
    ELSE Append(d, <<k, v>>)

RECURSIVE delitem(_, _)
delitem(d, k) ==
    IF d = <<>> THEN <<>>
    ELSE IF Head(d)[1] = k THEN Tail(d)
    ELSE <<Head(d)>> \o delitem(Tail(d), k)

\* x in xs, for a list
inlist(xs, x) == \E i \in 1..Len(xs) : xs[i] = x

\* the last position holding x, not the first
index_last(xs, x) == (CHOOSE i \in 1..Len(xs) :
                         xs[i] = x /\ \A j \in (i + 1)..Len(xs) : xs[j] # x) - 1

\* xs.index(x), zero-based, for x in xs: the first position holding x
index(xs, x) == (CHOOSE i \in 1..Len(xs) :
                    xs[i] = x /\ \A j \in 1..(i - 1) : xs[j] # x) - 1

(***************************************************************************)
(* class Cardinality                                                       *)
(***************************************************************************)
\* r"(%s)?" % pattern
make_zero_or_one_pattern(pattern) == <<"(">> \o pattern \o <<")", "?">>

\* r"(\s*%s\s*(%s))*": the repetition tail of both list patterns
listtail(pattern, listsep) ==
    <<"(", "\\", "s", "*">> \o listsep \o <<"\\", "s", "*", "(">>
        \o pattern \o <<")", ")", "*">>

\* r"(%s)?(\s*%s\s*(%s))*" % (pattern, listsep, pattern)
make_zero_or_more_pattern(pattern, listsep) ==
    <<"(">> \o pattern \o <<")", "?">> \o listtail(pattern, listsep)

\* r"(%s)(\s*%s\s*(%s))*" % (pattern, listsep, pattern)
make_one_or_more_pattern(pattern, listsep) ==
    <<"(">> \o pattern \o <<")">> \o listtail(pattern, listsep)

(***************************************************************************)
(* class TypeBuilder: the converter functions                              *)
(***************************************************************************)
\* r".+?"
default_pattern == <<".", "+", "?">>

\* getattr(parse_type, "pattern", cls.default_pattern)
getattr_pattern(heap, parse_type) ==
    IF parse_type.t = "function" /\ "pattern" \in DOMAIN heap[parse_type.id].attrs
    THEN heap[parse_type.id].attrs.pattern
    ELSE default_pattern

\* int(x): surrounding whitespace of a str is ignored
int(x) ==
    IF x.t # "str" THEN Raise("TypeError", <<>>)
    ELSE LET s == strip(x.s) IN
         IF s # <<>> /\ \A i \in 1..Len(s) : s[i] \in Digits
         THEN Return(PyInt(decimal(s)), <<>>)
         ELSE Raise("ValueError", <<>>)

\* the callables the caller brings that are no function objects of convs
callbuiltin(f, x) ==
    CASE x.t # "str" -> Raise("TypeError", <<>>)
      [] f = Builtin("str") -> Return(x, <<>>)
      [] f = Builtin("int") -> int(x)
      [] f = Builtin("str.upper") -> Return(PyStr(upper(x.s)), <<>>)
      [] f = EmptyCallable -> Return(PyStr(upper(x.s)), <<>>)

RECURSIVE call(_, _)

\* [ parse_type(texti.strip()) for texti in parts ]: the calls are made in
\* order and the first exception ends the comprehension
RECURSIVE comprehension(_, _, _, _)
comprehension(parse_type, parts, values, calls) ==
    IF parts = <<>> THEN Return(PyList(values), calls)
    ELSE LET texti == PyStr(strip(Head(parts)))
             r == call(parse_type, texti)
         IN IF r.tag = "raise"
            THEN Raise(r.exc, Append(calls, texti))
            ELSE comprehension(parse_type, Tail(parts),
                               Append(values, r.value), Append(calls, texti))

\* text.split(",") whatever listsep is
splitandconvert_comma(parse_type, listsep, s) ==
    comprehension(parse_type, split(s, <<",">>), <<>>, <<>>)

\* text.split(listsep) followed by the comprehension
splitandconvert(parse_type, listsep, s) ==
    IF listsep = <<>> THEN Raise("ValueError", <<>>)   \* empty separator
    ELSE comprehension(parse_type, split(s, listsep), <<>>, <<>>)

\* parse_optional handing the text to parse_type as matched
parse_optional_nostrip(self, x) ==
    IF ~truth(x) \/ strip(x.s) = <<>> THEN Return(PyNone, <<>>)
    ELSE LET r == call(self.closure.parse_type, x)
         IN [r EXCEPT !.calls = <<x>>]

parse_optional(self, x) ==
    LET stripped == IF truth(x) THEN PyStr(strip(x.s)) ELSE x IN
    IF ~truth(stripped) THEN Return(PyNone, <<>>)
    ELSE LET r == call(self.closure.parse_type, stripped)
         IN [r EXCEPT !.calls = <<stripped>>]

parse_list0(self, x) ==
    LET stripped == IF truth(x) THEN PyStr(strip(x.s)) ELSE x IN
    IF ~truth(stripped) THEN Return(PyList(<<>>), <<>>)
    ELSE splitandconvert(self.closure.parse_type, self.closure.listsep,
                         stripped.s)

\* the comprehension without texti.strip()
RECURSIVE comprehension_nostrip(_, _, _, _)
comprehension_nostrip(parse_type, parts, values, calls) ==
    IF parts = <<>> THEN Return(PyList(values), calls)
    ELSE LET texti == PyStr(Head(parts))
             r == call(parse_type, texti)
         IN IF r.tag = "raise"
            THEN Raise(r.exc, Append(calls, texti))
            ELSE comprehension_nostrip(parse_type, Tail(parts),
                                       Append(values, r.value),
                                       Append(calls, texti))

\* parse_list passing each part to parse_type as it was split
parse_list_nostrip(self, x) ==
    IF x.t # "str" THEN Raise("AttributeError", <<>>)
    ELSE IF self.closure.listsep = <<>> THEN Raise("ValueError", <<>>)
    ELSE comprehension_nostrip(self.closure.parse_type,
                               split(x.s, self.closure.listsep), <<>>, <<>>)

parse_list(self, x) ==
    IF x.t # "str" THEN Raise("AttributeError", <<>>)  \* None has no split
    ELSE splitandconvert(self.closure.parse_type, self.closure.listsep, x.s)

\* parse_enum without the text.lower() fallback
parse_enum_exact(self, x) ==
    LET mappings == dicts[self.attrs.mappings.id] IN
    IF x.t = "str" /\ haskey(mappings, x.s)
    THEN Return(getitem(mappings, x.s), <<>>)
    ELSE Raise("KeyError", <<>>)

parse_enum(self, x) ==
    LET mappings == dicts[self.attrs.mappings.id] IN
    IF x.t = "str" /\ haskey(mappings, x.s)
    THEN Return(getitem(mappings, x.s), <<>>)
    ELSE IF x.t # "str" THEN Raise("AttributeError", <<>>) \* None has no lower
    ELSE IF haskey(mappings, lower(x.s))
         THEN Return(getitem(mappings, lower(x.s)), <<>>)
         ELSE Raise("KeyError", <<>>)

parse_choice(self, x) ==
    IF ~(x.t = "str" /\ inlist(self.attrs.choices, x.s))
    THEN Raise("AssertionError", <<>>)
    ELSE IF truth(self.closure.value_converter)
         THEN LET r == call(self.closure.value_converter, x)
              IN [r EXCEPT !.calls = <<x>>]
         ELSE Return(x, <<>>)

parse_choice2(self, x) ==
    IF ~(x.t = "str" /\ inlist(self.attrs.choices, x.s))
    THEN Raise("AssertionError", <<>>)
    ELSE IF ~truth(x) THEN Return(PyNone, <<>>)
    ELSE Return(PyTuple(<<PyInt(index(self.attrs.choices, x.s)), x>>), <<>>)

\* the caller's own converter for integers
parse_number(self, x) == int(x)

\* f(x) for any Python value f
call(f, x) ==
    IF ~callable(f) THEN Raise("TypeError", <<>>)
    ELSE IF f.t # "function" THEN callbuiltin(f, x)
    ELSE LET self == convs[f.id] IN
         CASE self.kind = "parse_optional" -> parse_optional(self, x)
           [] self.kind = "parse_list0" -> parse_list0(self, x)
           [] self.kind = "parse_list" -> parse_list(self, x)
           [] self.kind = "parse_enum" -> parse_enum(self, x)
           [] self.kind = "parse_choice" -> parse_choice(self, x)
           [] self.kind = "parse_choice2" -> parse_choice2(self, x)
           [] self.kind = "parse_number" -> parse_number(self, x)


(***************************************************************************)
(* class TypeBuilder: the builders.  Each returns the new function object  *)
(* or raises; heap is the heap the base converter lives in.                *)
(***************************************************************************)
with_zero_or_one(heap, parse_type) ==
    Return([kind |-> "parse_optional",
            attrs |-> [pattern |-> make_zero_or_one_pattern(
                                       getattr_pattern(heap, parse_type))],
            closure |-> [parse_type |-> parse_type]], <<>>)

with_zero_or_more(heap, parse_type, listsep, max_size) ==
    Return([kind |-> "parse_list0",
            attrs |-> [pattern |-> make_zero_or_more_pattern(
                                       getattr_pattern(heap, parse_type), listsep),
                       max_size |-> max_size],
            closure |-> [parse_type |-> parse_type, listsep |-> listsep]], <<>>)

with_one_or_more(heap, parse_type, listsep, max_size) ==
    Return([kind |-> "parse_list",
            attrs |-> [pattern |-> make_one_or_more_pattern(
                                       getattr_pattern(heap, parse_type), listsep),
                       max_size |-> max_size],
            closure |-> [parse_type |-> parse_type, listsep |-> listsep]], <<>>)

with_optional(heap, parse_type) == with_zero_or_one(heap, parse_type)

with_many(heap, parse_type, listsep, max_size) ==
    with_one_or_more(heap, parse_type, listsep, max_size)

\* enum_mappings is the caller's dict object d of the heap ds: the function
\* object keeps the reference, the pattern is joined from the keys now
make_enum(ds, d) ==
    Return([kind |-> "parse_enum",
            attrs |-> [pattern |-> join(<<"|">>, dictkeys(ds[d])),
                       mappings |-> Dict(d)],
            closure |-> [enum_mappings |-> Dict(d)]], <<>>)

\* make_choice without its assert on value_converter
make_choice_unchecked(choices, value_converter) ==
    Return([kind |-> "parse_choice",
            attrs |-> [pattern |-> join(<<"|">>, choices),
                       choices |-> choices],
            closure |-> [value_converter |-> value_converter]], <<>>)

\* choices is the content of the caller's list: list(choices) copies it
make_choice(choices, value_converter) ==
    IF ~(value_converter = PyNone \/ callable(value_converter))
    THEN Raise("AssertionError", <<>>)
    ELSE Return([kind |-> "parse_choice",
                 attrs |-> [pattern |-> join(<<"|">>, choices),
                            choices |-> choices],
                 closure |-> [value_converter |-> value_converter]], <<>>)

make_choice2(choices) ==
    Return([kind |-> "parse_choice2",
            attrs |-> [pattern |-> join(<<"|">>, choices),
                       choices |-> choices],
            closure |-> [choices |-> choices]], <<>>)

\* the caller's converter for integers of the module's example:
\* parse_number.pattern = r"\s*\d+"
parse_number_object ==
    [kind |-> "parse_number",
     attrs |-> [pattern |-> <<"\\", "s", "*", "\\", "d", "+">>],
     closure |-> [int |-> Builtin("int")]]

(***************************************************************************)
(* Operations                                                              *)
(***************************************************************************)
NoCall == [op |-> "none"]

MaxConvs == 2     \* function objects in the heap

\* a builder call whose result is r: a returned function object joins the heap
Build(op, args, r) ==
    /\ Len(convs) < MaxConvs
    /\ convs' = IF r.tag = "return" THEN Append(convs, r.value) ELSE convs
    /\ last' = [op |-> op, args |-> args,
                outcome |-> IF r.tag = "return"
                            THEN Return(Function(Len(convs) + 1), <<>>)
                            ELSE r]
    /\ UNCHANGED <<dicts, lists, text>>

\* with_zero_or_one attaching the new pattern to parse_type, not to
\* parse_optional
WithZeroOrOne_onbase(parse_type) ==
    LET r == with_zero_or_one(convs, parse_type) IN
    /\ Len(convs) < MaxConvs
    /\ convs' = Append(
           IF parse_type.t = "function"
           THEN [convs EXCEPT ![parse_type.id].attrs =
                    [a \in DOMAIN @ \cup {"pattern"} |->
                        IF a = "pattern" THEN r.value.attrs.pattern ELSE @[a]]]
           ELSE convs,
           [r.value EXCEPT !.attrs = [x \in {} |-> x]])
    /\ last' = [op |-> "with_zero_or_one", args |-> <<parse_type>>,
                outcome |-> Return(Function(Len(convs) + 1), <<>>)]
    /\ UNCHANGED <<dicts, lists, text>>

WithZeroOrOne(parse_type) ==
    Build("with_zero_or_one", <<parse_type>>, with_zero_or_one(convs, parse_type))

WithOptional(parse_type) ==
    Build("with_optional", <<parse_type>>, with_optional(convs, parse_type))

WithZeroOrMore(parse_type, listsep, max_size) ==
    Build("with_zero_or_more", <<parse_type, PyStr(listsep), max_size>>,
          with_zero_or_more(convs, parse_type, listsep, max_size))

WithOneOrMore(parse_type, listsep, max_size) ==
    Build("with_one_or_more", <<parse_type, PyStr(listsep), max_size>>,
          with_one_or_more(convs, parse_type, listsep, max_size))

WithMany(parse_type, listsep, max_size) ==
    Build("with_many", <<parse_type, PyStr(listsep), max_size>>,
          with_many(convs, parse_type, listsep, max_size))

MakeEnum(d) == Build("make_enum", <<Dict(d)>>, make_enum(dicts, d))

MakeChoice(l, value_converter) ==
    Build("make_choice", <<PyList(lists[l]), value_converter>>,
          make_choice(lists[l], value_converter))

MakeChoice2(l) ==
    Build("make_choice2", <<PyList(lists[l])>>, make_choice2(lists[l]))

\* the caller calls the converter convs[c] with the value x
Convert(c, x) ==
    /\ last' = [op |-> "call", fn |-> c, arg |-> x,
                outcome |-> call(Function(c), x)]
    /\ UNCHANGED <<convs, dicts, lists, text>>

\* the caller changes its own dict after handing it to make_enum
DictSetItem(d, k, v) ==
    /\ dicts' = [dicts EXCEPT ![d] = setitem(@, k, v)]
    /\ last' = [op |-> "dict.__setitem__", args |-> <<Dict(d), PyStr(k), v>>]
    /\ UNCHANGED <<convs, lists, text>>

DictDelItem(d, k) ==
    /\ haskey(dicts[d], k)
    /\ dicts' = [dicts EXCEPT ![d] = delitem(@, k)]
    /\ last' = [op |-> "dict.__delitem__", args |-> <<Dict(d), PyStr(k)>>]
    /\ UNCHANGED <<convs, lists, text>>

\* the caller changes its own list after handing it to make_choice(2)
ListAppend(l, x) ==
    /\ lists' = [lists EXCEPT ![l] = Append(@, x)]
    /\ last' = [op |-> "list.append", args |-> <<PyInt(l), PyStr(x)>>]
    /\ UNCHANGED <<convs, dicts, text>>

ListPop(l) ==
    /\ lists[l] # <<>>
    /\ lists' = [lists EXCEPT ![l] = SubSeq(@, 1, Len(@) - 1)]
    /\ last' = [op |-> "list.pop", args |-> <<PyInt(l)>>]
    /\ UNCHANGED <<convs, dicts, text>>


(***************************************************************************)
(* Spec: builder calls and converter calls, in any order, starting with    *)
(* the caller's parse_number, one dict and one list                        *)
(***************************************************************************)
\* what the caller may hand to a builder as parse_type: a builtin, a value
\* that is no callable, or a function object of the heap
Bases == {Builtin("str"), PyInt(5)} \cup {Function(i) : i \in 1..Len(convs)}
ListSeps == {<<",">>}
MaxSizes == {PyNone, PyInt(2)}
ValueConverters == {PyNone, Builtin("str.upper"), PyInt(5)}
Texts == {PyNone, PyStr(<<>>), PyStr(<<"a">>), PyStr(<<" ", "1">>),
          PyStr(<<"1", ",", "a">>)}

Init ==
    /\ convs = <<parse_number_object>>
    /\ dicts = << <<<<<<"a">>, PyInt(1)>>, <<<<"b">>, PyInt(2)>>>> >>
    /\ lists = << <<<<"a">>, <<"b">>>> >>
    /\ text = PyNone
    /\ last = NoCall

Next ==
    \/ \E parse_type \in Bases : WithZeroOrOne(parse_type)
    \/ \E parse_type \in Bases : WithOptional(parse_type)
    \/ \E parse_type \in Bases, listsep \in ListSeps, max_size \in MaxSizes :
          WithZeroOrMore(parse_type, listsep, max_size)
    \/ \E parse_type \in Bases, listsep \in ListSeps, max_size \in MaxSizes :
          WithOneOrMore(parse_type, listsep, max_size)
    \/ \E parse_type \in Bases, listsep \in ListSeps, max_size \in MaxSizes :
          WithMany(parse_type, listsep, max_size)
    \/ \E d \in 1..Len(dicts) : MakeEnum(d)
    \/ \E l \in 1..Len(lists), value_converter \in ValueConverters :
          MakeChoice(l, value_converter)
    \/ \E l \in 1..Len(lists) : MakeChoice2(l)
    \/ \E c \in 1..Len(convs), x \in Texts : Convert(c, x)

Spec == Init /\ [][Next]_vars


CardinalityKinds == {"parse_optional", "parse_list0", "parse_list"}
CardinalityBuilders ==
    {"with_zero_or_one", "with_optional", "with_zero_or_more",
     "with_one_or_more", "with_many"}

\* C2 as claimed: every builder rejects an invalid argument in the builder
\* call itself: a with_* call given a parse_type that is no callable, and a
\* make_choice call given a value_converter that is neither None nor
\* callable, raise and return no converter.
C2_BuildersRejectAtBuildTime ==
    /\ (last.op \in CardinalityBuilders /\ ~callable(last.args[1]))
          => last.outcome.tag = "raise"
    /\ (last.op = "make_choice" /\ last.args[2] # PyNone /\ ~callable(last.args[2]))
          => last.outcome.tag = "raise"

\* C2 amended: only make_choice checks its argument at build time (an
\* AssertionError, no converter returned, so no parse_choice holds a
\* value_converter that is neither None nor callable).  The with_* builders
\* check nothing: they return a converter for any parse_type, and with a
\* parse_type that is no callable the failure is a TypeError in a later
\* conversion call, as soon as that call reaches parse_type (any non-blank
\* text for parse_optional and parse_list0, any str for parse_list).
C2_OnlyMakeChoiceChecks ==
    /\ (last.op = "make_choice" /\ last.args[2] # PyNone /\ ~callable(last.args[2]))
          => last.outcome = Raise("AssertionError", <<>>)
    /\ \A c \in 1..Len(convs) :
          convs[c].kind = "parse_choice"
             => \/ convs[c].closure.value_converter = PyNone
                \/ callable(convs[c].closure.value_converter)
    /\ last.op \in CardinalityBuilders
          => /\ last.outcome = Return(Function(Len(convs)), <<>>)
             /\ convs[Len(convs)].closure.parse_type = last.args[1]
    /\ (/\ last.op = "call"
        /\ convs[last.fn].kind \in CardinalityKinds
        /\ ~callable(convs[last.fn].closure.parse_type))
          => LET blank == ~truth(last.arg) \/ strip(last.arg.s) = <<>>
                 kind == convs[last.fn].kind
             IN CASE kind = "parse_optional" ->
                       last.outcome.tag = IF blank THEN "return" ELSE "raise"
                  [] kind = "parse_list0" ->
                       last.outcome.tag = IF blank THEN "return" ELSE "raise"
                  [] kind = "parse_list" -> last.outcome.tag = "raise"

\* C2 witness: a converter built by a with_* builder from a parse_type that is
\* no callable exists, and a conversion call on it has raised the TypeError
C2_Witness ==
    /\ last.op = "call"
    /\ convs[last.fn].kind \in CardinalityKinds
    /\ ~callable(convs[last.fn].closure.parse_type)
    /\ last.outcome.tag = "raise"
    /\ last.outcome.exc = "TypeError"
    /\ last.outcome.calls # <<>>

\* C8: no builder call and no converter call writes an attribute (pattern,
\* max_size, choices, mappings) of a function object that exists: every
\* existing converter, the base handed to a composite builder included, keeps
\* the attributes attached when it was built.
C8_AttributesNeverWritten ==
    [][\A c \in 1..Len(convs) :
          /\ c \in 1..Len(convs')
          /\ convs'[c].attrs = convs[c].attrs]_vars

\* C8 witness: a composite has been built from the caller's parse_number, a
\* conversion call on the composite has returned, and parse_number is as it was
C8_Witness ==
    /\ last.op = "call"
    /\ last.fn > 1
    /\ convs[last.fn].kind = "parse_optional"
    /\ convs[last.fn].closure.parse_type = Function(1)
    /\ last.outcome.tag = "return"
    /\ last.outcome.calls # <<>>
    /\ convs[1] = parse_number_object


(***************************************************************************)
(* SpecList: the three cardinality converters built from one parse_type    *)
(* and one listsep, called with the caller's items joined by listsep (or   *)
(* with no text)                                                           *)
(***************************************************************************)
MaxItems == 2      \* items the caller joins
MaxItemLen == 1    \* characters of an item

\* all str of at most n characters of chars
Strings(chars, n) == UNION {[1..k -> chars] : k \in 0..n}
\* all lists of at most n elements of elems
ListsOf(elems, n) == UNION {[1..k -> elems] : k \in 0..n}

ItemChars == {"1", " ", ","}
Separators == {<<",">>, <<" ">>, <<>>, <<"1", "1">>, <<",", " ">>}
ListBases == {Builtin("str"), Builtin("int"), PyInt(5)}

InitList ==
    \E items \in ListsOf(Strings(ItemChars, MaxItemLen), MaxItems),
       listsep \in Separators, parse_type \in ListBases :
        /\ lists = <<items>>
        /\ convs = <<with_zero_or_one(<<>>, parse_type).value,
                     with_zero_or_more(<<>>, parse_type, listsep, PyNone).value,
                     with_one_or_more(<<>>, parse_type, listsep, PyNone).value>>
        /\ text \in {PyStr(join(listsep, items)), PyNone}
        /\ dicts = <<>>
        /\ last = NoCall

NextList == \E c \in 1..Len(convs) : Convert(c, text)

SpecList == InitList /\ [][NextList]_vars

\* the state is one where the converter of this kind has just been called
Called(kind) == last.op = "call" /\ convs[last.fn].kind = kind

\* missing text, the empty string or whitespace-only text
Blank(x) == x = PyNone \/ strip(x.s) = <<>>

\* C7: parse_optional returns None for missing, empty or whitespace-only text
\* without calling parse_type; for any other text it ends exactly as
\* parse_type ends on the stripped text, having called parse_type once, with
\* the stripped text.
C7_Optional ==
    Called("parse_optional") =>
        IF Blank(last.arg)
        THEN last.outcome = Return(PyNone, <<>>)
        ELSE LET stripped == PyStr(strip(last.arg.s))
                 r == call(convs[last.fn].closure.parse_type, stripped)
             IN /\ last.outcome.tag = r.tag
                /\ r.tag = "return" => last.outcome.value = r.value
                /\ r.tag = "raise" => last.outcome.exc = r.exc
                /\ last.outcome.calls = <<stripped>>

\* C7 witness: parse_optional was called with a text that has surrounding
\* whitespace around something else, and returned what parse_type made of it
C7_Witness ==
    /\ Called("parse_optional")
    /\ ~Blank(last.arg)
    /\ strip(last.arg.s) # last.arg.s
    /\ last.outcome.tag = "return"
    /\ last.outcome.value # PyNone

\* the items are valid for listsep as C5 has it: no item contains listsep, none
\* has leading or trailing whitespace
ValidItems(items, listsep) ==
    \A i \in 1..Len(items) :
        ~contains(items[i], listsep) /\ strip(items[i]) = items[i]

ListKinds == {"parse_list0", "parse_list"}

\* the list converter called last closes over (parse_type, listsep)
CalledList(parse_type) ==
    /\ last.op = "call"
    /\ convs[last.fn].kind \in ListKinds
    /\ convs[last.fn].closure.parse_type = parse_type
    /\ last.arg # PyNone

StrList(items) == PyList([i \in 1..Len(items) |-> PyStr(items[i])])

\* C5 as claimed: for any listsep (here any non-empty one: str.split raises
\* for an empty separator) and any sequence of valid items, both list
\* converters built from str and listsep turn the joined text back into the
\* sequence of items.
C5_RoundTrip ==
    (CalledList(Builtin("str"))
        /\ convs[last.fn].closure.listsep # <<>>
        /\ ValidItems(lists[1], convs[last.fn].closure.listsep))
    => /\ last.outcome.tag = "return"
       /\ last.outcome.value = StrList(lists[1])

\* C5 amended: the round trip holds for a listsep of one character and a
\* non-empty sequence of non-empty valid items.  For the empty sequence the
\* joined text is "", which parse_list0 turns into [] and parse_list into [""].
C5_RoundTripNonEmpty ==
    (CalledList(Builtin("str"))
        /\ ValidItems(lists[1], convs[last.fn].closure.listsep)
        /\ Len(convs[last.fn].closure.listsep) = 1)
    => IF lists[1] # <<>> /\ \A i \in 1..Len(lists[1]) : lists[1][i] # <<>>
       THEN /\ last.outcome.tag = "return"
            /\ last.outcome.value = StrList(lists[1])
            /\ last.outcome.calls = StrList(lists[1]).xs
       ELSE lists[1] = <<>> =>
               last.outcome =
                  IF convs[last.fn].kind = "parse_list0"
                  THEN Return(PyList(<<>>), <<>>)
                  ELSE Return(PyList(<<PyStr(<<>>)>>), <<PyStr(<<>>)>>)

\* C5 witness: a list converter has turned the joined text of two valid
\* items back into the two items
C5_Witness ==
    /\ CalledList(Builtin("str"))
    /\ ValidItems(lists[1], convs[last.fn].closure.listsep)
    /\ Len(convs[last.fn].closure.listsep) = 1
    /\ Len(lists[1]) = 2
    /\ \A i \in 1..Len(lists[1]) : lists[1][i] # <<>>
    /\ last.outcome = Return(StrList(lists[1]), StrList(lists[1]).xs)

\* the other list converter over the same parse_type and listsep
Sibling(c) ==
    CHOOSE d \in 1..Len(convs) :
        /\ d # c
        /\ convs[d].kind \in ListKinds
        /\ convs[d].closure = convs[c].closure

\* C10 as claimed, for parse_type = str, which accepts every text, and any
\* non-empty listsep, whitespace included: on every text that is not blank,
\* parse_list and parse_list0 end the same way, with the same calls of
\* parse_type; on "" parse_list0 returns [] without calling parse_type and
\* parse_list calls parse_type once, with "", and returns a list of one element.
C10_SameAsZeroOrMore ==
    (CalledList(Builtin("str")) /\ convs[last.fn].closure.listsep # <<>>)
    => IF ~Blank(last.arg)
       THEN last.outcome = call(Function(Sibling(last.fn)), last.arg)
       ELSE last.arg = PyStr(<<>>) =>
               IF convs[last.fn].kind = "parse_list0"
               THEN last.outcome = Return(PyList(<<>>), <<>>)
               ELSE /\ last.outcome.tag = "return"
                    /\ Len(last.outcome.value.xs) = 1
                    /\ last.outcome.calls = <<PyStr(<<>>)>>

\* listsep neither begins nor ends with a whitespace character
TightSep(listsep) ==
    listsep = <<>> \/ (listsep[1] \notin Whitespace
                       /\ listsep[Len(listsep)] \notin Whitespace)

\* C10 amended: the two converters end the same way (same list, or same
\* exception after the same calls) on every non-blank text when listsep
\* neither begins nor ends with whitespace.  On "" parse_list0 returns []
\* without calling parse_type; parse_list raises ValueError for an empty
\* listsep and otherwise calls parse_type once, with "", returning the list of
\* that one result when parse_type returns and raising what parse_type raises.
C10_SameForTightSep ==
    (last.op = "call" /\ convs[last.fn].kind \in ListKinds /\ last.arg # PyNone)
    => IF ~Blank(last.arg)
       THEN TightSep(convs[last.fn].closure.listsep)
               => last.outcome = call(Function(Sibling(last.fn)), last.arg)
       ELSE last.arg = PyStr(<<>>) =>
               IF convs[last.fn].kind = "parse_list0"
               THEN last.outcome = Return(PyList(<<>>), <<>>)
               ELSE LET r == call(convs[last.fn].closure.parse_type, PyStr(<<>>))
                    IN IF convs[last.fn].closure.listsep = <<>>
                       THEN last.outcome = Raise("ValueError", <<>>)
                       ELSE IF r.tag = "return"
                       THEN last.outcome =
                               Return(PyList(<<r.value>>), <<PyStr(<<>>)>>)
                       ELSE last.outcome = Raise(r.exc, <<PyStr(<<>>)>>)

\* C10 witness: parse_list was called with a non-blank text that has
\* surrounding whitespace and split it into two parts, as parse_list0 does
C10_Witness ==
    /\ Called("parse_list")
    /\ ~Blank(last.arg)
    /\ strip(last.arg.s) # last.arg.s
    /\ TightSep(convs[last.fn].closure.listsep)
    /\ last.outcome.tag = "return"
    /\ Len(last.outcome.calls) = 2
    /\ last.outcome = call(Function(Sibling(last.fn)), last.arg)


(***************************************************************************)
(* SpecEnum: the converter make_enum builds from one mapping, called with  *)
(* one text                                                                *)
(***************************************************************************)
MaxKeys == 2       \* items of the mapping
MaxKeyLen == 2     \* characters of a key, and of the text

EnumChars == {"a", "A"}
EnumValues == {PyInt(1), PyInt(2)}

\* the dicts of at most MaxKeys items: no key twice
Mappings ==
    {d \in ListsOf(Strings(EnumChars, MaxKeyLen) \X EnumValues, MaxKeys) :
        \A i, j \in 1..Len(d) : d[i][1] = d[j][1] => i = j}

InitEnum ==
    \E enum_mappings \in Mappings, x \in Strings(EnumChars, MaxKeyLen) :
        /\ dicts = <<enum_mappings>>
        /\ convs = <<make_enum(<<enum_mappings>>, 1).value>>
        /\ text = PyStr(x)
        /\ lists = <<>>
        /\ last = NoCall

NextEnum == \E c \in 1..Len(convs) : Convert(c, text)

SpecEnum == InitEnum /\ [][NextEnum]_vars

\* C3 as claimed: for every key k of the mapping, converting k.upper() yields
\* mapping[k] whenever k.upper() is not itself a key.
C3_UpperOfEveryKey ==
    Called("parse_enum") =>
        \A i \in 1..Len(dicts[1]) :
            LET k == dicts[1][i][1] IN
            (last.arg = PyStr(upper(k)) /\ ~haskey(dicts[1], upper(k)))
               => last.outcome = Return(dicts[1][i][2], <<>>)

\* C3 amended: for every key k with k.upper().lower() = k (a key without
\* upper-case characters), converting k.upper() yields mapping[k] whenever
\* k.upper() is not itself a key.
C3_UpperOfLowerCaseKey ==
    Called("parse_enum") =>
        \A i \in 1..Len(dicts[1]) :
            LET k == dicts[1][i][1] IN
            (/\ last.arg = PyStr(upper(k))
             /\ ~haskey(dicts[1], upper(k))
             /\ lower(upper(k)) = k)
               => last.outcome = Return(dicts[1][i][2], <<>>)

\* C3 witness: the text was the upper-case form of a key, no key itself, and
\* the converter returned that key's value
C3_Witness ==
    /\ Called("parse_enum")
    /\ \E i \in 1..Len(dicts[1]) :
          /\ last.arg = PyStr(upper(dicts[1][i][1]))
          /\ last.arg.s # dicts[1][i][1]
          /\ ~haskey(dicts[1], last.arg.s)
          /\ last.outcome = Return(dicts[1][i][2], <<>>)

(***************************************************************************)
(* SpecChoice: the converters make_choice and make_choice2 build from one  *)
(* list of choices, called with one text                                   *)
(***************************************************************************)
MaxChoices == 3    \* elements of choices
MaxChoiceLen == 1  \* characters of a choice, and of the text

ChoiceChars == {"a", "b"}
ChoiceMappers == {PyNone, Builtin("str.upper"), EmptyCallable}

InitChoice ==
    \E choices \in ListsOf(Strings(ChoiceChars, MaxChoiceLen), MaxChoices),
       value_converter \in ChoiceMappers,
       x \in Strings(ChoiceChars, MaxChoiceLen) :
        /\ lists = <<choices>>
        /\ convs = <<make_choice(choices, value_converter).value,
                     make_choice2(choices).value>>
        /\ text = PyStr(x)
        /\ dicts = <<>>
        /\ last = NoCall

NextChoice == \E c \in 1..Len(convs) : Convert(c, text)

SpecChoice == InitChoice /\ [][NextChoice]_vars

\* C1 as claimed, for a list of at least one choice: whatever the choices,
\* the converter of make_choice2 returns None for the text "": also when ""
\* is no element of choices.
C1_EmptyTextIsNone ==
    (Called("parse_choice2") /\ lists[1] # <<>> /\ last.arg = PyStr(<<>>))
        => last.outcome = Return(PyNone, <<>>)

\* C4 as claimed, for a text that is not empty: the converter of make_choice2
\* maps choices[i] to (i, choices[i]) for every position i, also one whose text
\* occurs earlier in choices.
C4_IndexOfEveryPosition ==
    Called("parse_choice2") =>
        \A i \in 1..Len(lists[1]) :
            (last.arg = PyStr(lists[1][i]) /\ lists[1][i] # <<>>)
               => last.outcome = Return(PyTuple(<<PyInt(i - 1), last.arg>>), <<>>)

\* the zero-based first position of x in xs
FirstPosition(xs, x) ==
    (CHOOSE j \in 1..Len(xs) : xs[j] = x /\ \A k \in 1..(j - 1) : xs[k] # x) - 1

\* C4 amended: the converter of make_choice2 maps a non-empty text choices[i]
\* to (j, choices[i]) with j the first position holding that text, which is i
\* exactly for the positions whose text does not occur earlier; the empty
\* text, when it is a choice, is mapped to None.
C4_IndexOfFirstPosition ==
    Called("parse_choice2") =>
        \A i \in 1..Len(lists[1]) :
            last.arg = PyStr(lists[1][i])
               => last.outcome =
                     IF lists[1][i] = <<>>
                     THEN Return(PyNone, <<>>)
                     ELSE Return(PyTuple(<<PyInt(FirstPosition(lists[1], lists[1][i])),
                                           last.arg>>), <<>>)

\* C4 witness: the text occurs at the first two positions of choices and the
\* converter returned position 0 with it
C4_Witness ==
    /\ Called("parse_choice2")
    /\ Len(lists[1]) >= 2
    /\ lists[1][1] = lists[1][2]
    /\ last.arg = PyStr(lists[1][2])
    /\ last.outcome = Return(PyTuple(<<PyInt(0), last.arg>>), <<>>)

\* C6 as claimed: the converter of make_choice fails with a membership
\* violation (AssertionError) for a text that is no element of choices; for an
\* element it returns the text unchanged when no value_converter was given and
\* value_converter(text) when any callable value_converter was given.
C6_ChoiceMapsMembers ==
    Called("parse_choice") =>
        LET value_converter == convs[last.fn].closure.value_converter IN
        IF ~inlist(lists[1], last.arg.s)
        THEN last.outcome = Raise("AssertionError", <<>>)
        ELSE IF value_converter = PyNone
        THEN last.outcome = Return(last.arg, <<>>)
        ELSE callable(value_converter)
                => /\ last.outcome.tag = "return"
                   /\ last.outcome.value = call(value_converter, last.arg).value

(***************************************************************************)
(* SpecAlias: the selection converters, with a caller that goes on         *)
(* changing the dict and the list it handed to the builders                *)
(***************************************************************************)
MaxListLen == 2    \* elements of the caller's list

AliasKeys == {<<"a">>, <<"b">>}
AliasMappers == {PyNone, Builtin("str.upper")}

InitAlias ==
    /\ convs = <<>>
    /\ dicts = << <<<<<<"a">>, PyInt(1)>>>> >>
    /\ lists = << <<<<"a">>>> >>
    /\ text = PyNone
    /\ last = NoCall

NextAlias ==
    \/ \E d \in 1..Len(dicts) : MakeEnum(d)
    \/ \E l \in 1..Len(lists), value_converter \in AliasMappers :
          MakeChoice(l, value_converter)
    \/ \E l \in 1..Len(lists) : MakeChoice2(l)
    \/ \E c \in 1..Len(convs), x \in AliasKeys : Convert(c, PyStr(x))
    \/ \E d \in 1..Len(dicts), k \in AliasKeys, v \in EnumValues :
          DictSetItem(d, k, v)
    \/ \E d \in 1..Len(dicts), k \in AliasKeys : DictDelItem(d, k)
    \/ \E l \in 1..Len(lists), x \in AliasKeys :
          Len(lists[l]) < MaxListLen /\ ListAppend(l, x)
    \/ \E l \in 1..Len(lists) : ListPop(l)

SpecAlias == InitAlias /\ [][NextAlias]_vars

\* what converting x with converter c ends in, in the current state
Converted(c, x) == call(Function(c), PyStr(x))

\* C9 as claimed: once a selection converter is built, what it makes of a
\* given text is the same in every later state, whatever the caller does to
\* the mapping or the choices it handed to the builder.
C9_ConversionNeverChanges ==
    [][\A c \in 1..Len(convs), x \in AliasKeys :
          Converted(c, x)' = Converted(c, x)]_vars

====
